---------------------------- MODULE Spec2Model ----------------------------
(***************************************************************************)
(* Model of src/film_review_explorer/dataframe_preprocessor.py: the two    *)
(* noise cleaners, the row-level derivations (cleaned text, review length, *)
(* rating level, like level), update_column and condition_filter.          *)
(*                                                                         *)
(* A Python str is a sequence of one-character strings.  A cell of a row   *)
(* is a tagged value [t, s, n]: t is the Python type of the value ("str",  *)
(* "int", "float", "nan", "none"), s the characters of a str, n the number *)
(* of an int or, for a float, the ratio in hundredths (0.8 is 80).         *)
(* A call's outcome is [status, value, exc]: status "ok" with the value    *)
(* returned, or status "raise" with the name of the exception.             *)
(***************************************************************************)
EXTENDS Integers, Sequences, FiniteSets, TLC

VARIABLES
    input,     \* the str the first cleaner call was given
    text,      \* the str handed to the next cleaner call
    prev,      \* the argument of the last cleaner call
    stage,     \* the str of the last cleaner call just before its punctuation re.sub
    op,        \* the last function called
    prevop,    \* the function called before that
    row,       \* the row (pd.Series) handed to the row-level functions
    result,    \* the outcome of the last row-level call
    df,        \* the caller's DataFrame object
    df0,       \* df as it was when the last operation was called
    call,      \* the last operation on df: [fn, column]
    prevcall,  \* the operation before it
    ret,       \* what the last operation on df returned or raised
    ncalls     \* operations on df so far

vars == <<input, text, prev, stage, op, prevop, row, result, df, df0, call, prevcall, ret, ncalls>>

---------------------------------------------------------------------------
(* Bounds of the model *)

\* longest review str drawn as an input
MaxLen == 4

\* most rows of an input DataFrame
MaxRows == 2

\* most operations applied to one DataFrame
MaxCalls == 2

---------------------------------------------------------------------------
(* Characters and their classes *)

\* "a": a letter; "_": the underscore (a \w character and ASCII punctuation);
\* " " and "\n": whitespace; "!": ASCII punctuation outside the CN class;
\* ".": in both classes; "u3002": the ideographic full stop, in the CN class only.
Chars == {"a", "_", " ", "\n", "!", ".", "u3002"}

\* \s of the re module, on Chars
IsSpace(c) == c \in {" ", "\n"}

\* \w of the re module, on Chars
IsWord(c) == c \in {"a", "_"}

\* the character class of clean_cn_noise's punctuation pattern, on Chars
CnPunct == {"u3002", "."}

\* the character class of clean_en_noise's punctuation pattern, on Chars
EnPunct == {"!", ".", "_"}

\* every str of at most n characters
RECURSIVE Strings(_)
Strings(n) == IF n = 0 THEN {<<>>}
              ELSE LET S == Strings(n - 1)
                   IN  S \cup {Append(s, c) : s \in {x \in S : Len(x) = n - 1}, c \in Chars}

---------------------------------------------------------------------------
(* The primitives of str and re the cleaners use *)

\* text.replace(old, new) for a one-character old; new is a str
RECURSIVE replace(_, _, _)
replace(s, old, new) ==
    IF s = <<>> THEN <<>>
    ELSE (IF Head(s) = old THEN new ELSE <<Head(s)>>) \o replace(Tail(s), old, new)

\* the length of the longest prefix of s whose characters satisfy the class
RECURSIVE SpanSpace(_)
SpanSpace(s) == IF s # <<>> /\ IsSpace(Head(s)) THEN 1 + SpanSpace(Tail(s)) ELSE 0

\* re.sub(r"\s+", repl, s): every leftmost-longest whitespace match becomes repl
RECURSIVE sub_spaces(_, _)
sub_spaces(s, repl) ==
    IF s = <<>> THEN <<>>
    ELSE IF IsSpace(Head(s))
         THEN repl \o sub_spaces(SubSeq(s, SpanSpace(s) + 1, Len(s)), repl)
         ELSE <<Head(s)>> \o sub_spaces(Tail(s), repl)

\* how many times the first character of s stands at the start of s
RECURSIVE SpanSame(_)
SpanSame(s) ==
    IF Len(s) >= 2 /\ s[2] = s[1] THEN 1 + SpanSame(Tail(s)) ELSE IF s = <<>> THEN 0 ELSE 1

\* a sub_repeats that collapses a repeated character of any kind
RECURSIVE sub_repeats_any(_, _)
sub_repeats_any(s, class) ==
    IF s = <<>> THEN <<>>
    ELSE <<Head(s)>> \o sub_repeats_any(SubSeq(s, SpanSame(s) + 1, Len(s)), class)

\* re.sub(r"([class])\1+", r"\1", s): scanning from the left, a class character
\* followed by one or more copies of itself is replaced by one copy
RECURSIVE sub_repeats(_, _)
sub_repeats(s, class) ==
    IF s = <<>> THEN <<>>
    ELSE IF Head(s) \in class /\ SpanSame(s) >= 2
         THEN <<Head(s)>> \o sub_repeats(SubSeq(s, SpanSame(s) + 1, Len(s)), class)
         ELSE <<Head(s)>> \o sub_repeats(Tail(s), class)

\* the length of the longest prefix of s made of \w characters
RECURSIVE SpanWord(_)
SpanWord(s) == IF s # <<>> /\ IsWord(Head(s)) THEN 1 + SpanWord(Tail(s)) ELSE 0

\* re.findall(r"\b\w+\b", s): the matches, left to right.  A match starts at a
\* \w character (the scan never stands inside a run: a match takes the whole run)
RECURSIVE findall_words(_)
findall_words(s) ==
    IF s = <<>> THEN <<>>
    ELSE IF IsWord(Head(s))
         THEN <<SubSeq(s, 1, SpanWord(s))>> \o findall_words(SubSeq(s, SpanWord(s) + 1, Len(s)))
         ELSE findall_words(Tail(s))

---------------------------------------------------------------------------
(* The cleaners *)

\* clean_cn_noise before its punctuation re.sub: newlines removed, whitespace removed
cn_spaces(s) == sub_spaces(replace(s, "\n", <<>>), <<>>)

\* a clean_cn_noise that collapses punctuation before it removes whitespace
clean_cn_noise_punct_first(s) == cn_spaces(sub_repeats(s, CnPunct))

clean_cn_noise(s) == sub_repeats(cn_spaces(s), CnPunct)

\* clean_en_noise before its punctuation re.sub: newlines to spaces, whitespace runs to one space
en_spaces(s) == sub_spaces(replace(s, "\n", <<" ">>), <<" ">>)

clean_en_noise(s) == sub_repeats(en_spaces(s), EnPunct)

---------------------------------------------------------------------------
(* Values and outcomes *)

StrV(s) == [t |-> "str", s |-> s, n |-> 0]

IntV(n) == [t |-> "int", s |-> <<>>, n |-> n]

\* a float that is a number: n is the value in hundredths
FloatV(n) == [t |-> "float", s |-> <<>>, n |-> n]

\* float("nan"), what pandas puts for a value missing from a record
NaN == [t |-> "nan", s |-> <<>>, n |-> 0]

None == [t |-> "none", s |-> <<>>, n |-> 0]

\* a str nothing reads into (a label, a website name), kept as one element
Atom(name) == StrV(<<name>>)

\* a call that returned v
Ok(v) == [status |-> "ok", value |-> v, exc |-> ""]

\* a call that raised e
Raise(e) == [status |-> "raise", value |-> None, exc |-> e]

\* no call yet
NoResult == [status |-> "none", value |-> None, exc |-> ""]

\* the websites of the input rows
Websites == {Atom("douban"), Atom("imdb")}

\* the caller's list of CN sites
cn_websites == {Atom("douban")}

\* the value as a number in hundredths (an int counts whole units)
Hundredths(x) == IF x.t = "int" THEN 100 * x.n ELSE x.n

\* math.isnan accepts x (a real number); anything else is a TypeError
IsReal(x) == x.t \in {"float", "int", "nan"}

---------------------------------------------------------------------------
(* The row-level functions.  A row maps its column names to values; reading a
   column the row does not have raises KeyError. *)

clean_text_basic(r, cn) ==
    IF "review" \notin DOMAIN r \/ "website" \notin DOMAIN r THEN Raise("KeyError")
    ELSE IF r["review"].t # "str" THEN Raise("AttributeError")
    ELSE IF r["website"] \in cn THEN Ok(StrV(clean_cn_noise(r["review"].s)))
    ELSE Ok(StrV(clean_en_noise(r["review"].s)))

\* a calculate_review_length that counts characters on every site
calculate_review_length_chars(r, cn) ==
    IF "website" \notin DOMAIN r \/ "review" \notin DOMAIN r THEN Raise("KeyError")
    ELSE IF r["review"].t # "str" THEN Raise("TypeError")
    ELSE Ok(IntV(Len(r["review"].s)))

calculate_review_length(r, cn) ==
    IF "website" \notin DOMAIN r \/ "review" \notin DOMAIN r THEN Raise("KeyError")
    ELSE IF r["review"].t # "str" THEN Raise("TypeError")
    ELSE IF r["website"] \in cn THEN Ok(IntV(Len(r["review"].s)))
    ELSE Ok(IntV(Len(findall_words(r["review"].s))))

\* a calculate_rating_level whose upper threshold is exclusive
calculate_rating_level_gt(r) ==
    IF "rating_ratio" \notin DOMAIN r THEN Raise("KeyError")
    ELSE LET rating_ratio == r["rating_ratio"]
         IN  IF ~IsReal(rating_ratio) THEN Raise("TypeError")
             ELSE IF rating_ratio.t = "nan" \/ rating_ratio.t = "none" THEN Ok(None)
             ELSE IF Hundredths(rating_ratio) > 80 THEN Ok(Atom("Good (>=8/10)"))
             ELSE IF Hundredths(rating_ratio) <= 40 THEN Ok(Atom("Bad (<=4/10)"))
             ELSE Ok(Atom("Ok (4~8/10)"))

\* math.isnan(rating_ratio) is evaluated first, and raises on None
calculate_rating_level(r) ==
    IF "rating_ratio" \notin DOMAIN r THEN Raise("KeyError")
    ELSE LET rating_ratio == r["rating_ratio"]
         IN  IF ~IsReal(rating_ratio) THEN Raise("TypeError")
             ELSE IF rating_ratio.t = "nan" \/ rating_ratio.t = "none" THEN Ok(None)
             ELSE IF Hundredths(rating_ratio) >= 80 THEN Ok(Atom("Good (>=8/10)"))
             ELSE IF Hundredths(rating_ratio) <= 40 THEN Ok(Atom("Bad (<=4/10)"))
             ELSE Ok(Atom("Ok (4~8/10)"))

calculate_like_level(r) ==
    IF "like_ratio" \notin DOMAIN r THEN Raise("KeyError")
    ELSE LET like_ratio == r["like_ratio"]
         IN  IF ~IsReal(like_ratio) THEN Raise("TypeError")
             ELSE IF like_ratio.t = "nan" \/ like_ratio.t = "none" THEN Ok(None)
             ELSE IF Hundredths(like_ratio) >= 80 THEN Ok(Atom("Mostly Agree (>80%)"))
             ELSE IF 50 < Hundredths(like_ratio) /\ Hundredths(like_ratio) < 80
                  THEN Ok(Atom("Somewhat Agree (50%~80%)"))
             ELSE IF 20 < Hundredths(like_ratio) /\ Hundredths(like_ratio) <= 50
                  THEN Ok(Atom("Somewhat Disgree (20%~50%)"))
             ELSE Ok(Atom("Mostly Disagree (<20%)"))

---------------------------------------------------------------------------
(* DataFrames.  A DataFrame is [columns, index, rows]: the column names in
   order, the row labels in order, and one row (column name -> value) per
   label. *)

\* the elements of a sequence
Range(q) == {q[i] : i \in DOMAIN q}

\* the DataFrame with no row and no column
NoFrame == [columns |-> <<>>, index |-> <<>>, rows |-> <<>>]

\* the row functions handed to update_column
RowFunctions == {"clean_text_basic", "calculate_review_length"}

\* the columns a row function reads
Reads(fn) == {"review", "website"}

\* apply_function(row, *args) for the row function named fn
apply_function(fn, r, args) ==
    IF fn = "clean_text_basic" THEN clean_text_basic(r, args)
    ELSE calculate_review_length(r, args)

\* df.apply(lambda row: apply_function(row, *args), axis=1): the outcome for every
\* row; the call raises what the first failing row raised
apply(d, fn, args) == [i \in DOMAIN d.rows |-> apply_function(fn, d.rows[i], args)]

\* the first row whose outcome is an exception, 0 when there is none
FirstRaise(outs) ==
    IF \E i \in DOMAIN outs : outs[i].status = "raise"
    THEN CHOOSE i \in DOMAIN outs :
             /\ outs[i].status = "raise"
             /\ \A j \in 1..(i - 1) : outs[j].status # "raise"
    ELSE 0

\* df[column_name] = values: an existing column is overwritten where it stands, a
\* new one is added last
setitem(d, column_name, values) ==
    [columns |-> IF column_name \in Range(d.columns) THEN d.columns
                 ELSE Append(d.columns, column_name),
     index   |-> d.index,
     rows    |-> [i \in DOMAIN d.rows |->
                     [c \in DOMAIN d.rows[i] \cup {column_name} |->
                         IF c = column_name THEN values[i] ELSE d.rows[i][c]]]]

\* old + new of two values of one type, new otherwise
Plus(old, new) ==
    IF old.t = "str" /\ new.t = "str" THEN StrV(old.s \o new.s)
    ELSE IF old.t = "int" /\ new.t = "int" THEN IntV(old.n + new.n)
    ELSE new

\* what update_column returned or raised: obj is the object returned ("df": the
\* DataFrame passed in; "new": another DataFrame), value its content
Returned(obj, value) == [obj |-> obj, value |-> value, exc |-> ""]

Raised(e) == [obj |-> "none", value |-> NoFrame, exc |-> e]

\* an update_column that assigns to a copy and leaves the caller's DataFrame alone
update_column_copy(d, fn, column_name, args) ==
    LET outs == apply(d, fn, args)
        k    == FirstRaise(outs)
    IN  IF k # 0 THEN [df |-> d, ret |-> Raised(outs[k].exc)]
        ELSE [df  |-> d,
              ret |-> Returned("new", setitem(d, column_name, [i \in DOMAIN outs |-> outs[i].value]))]

\* an update_column that assigns row by row as it computes, so that a failure
\* leaves the rows before it assigned (NaN in the rest of a new column)
update_column_rowwise(d, fn, column_name, args) ==
    LET outs == apply(d, fn, args)
        k    == FirstRaise(outs)
        old(i) == IF column_name \in DOMAIN d.rows[i] THEN d.rows[i][column_name] ELSE NaN
    IN  IF k = 0
        THEN LET d2 == setitem(d, column_name, [i \in DOMAIN outs |-> outs[i].value])
             IN  [df |-> d2, ret |-> Returned("df", d2)]
        ELSE IF k = 1 THEN [df |-> d, ret |-> Raised(outs[k].exc)]
        ELSE [df  |-> setitem(d, column_name,
                        [i \in DOMAIN outs |-> IF i < k THEN outs[i].value ELSE old(i)]),
              ret |-> Raised(outs[k].exc)]

\* an update_column that adds to an existing column instead of overwriting it
update_column_accumulate(d, fn, column_name, args) ==
    LET outs == apply(d, fn, args)
        k    == FirstRaise(outs)
        new(i) == IF column_name \in DOMAIN d.rows[i]
                  THEN Plus(d.rows[i][column_name], outs[i].value)
                  ELSE outs[i].value
    IN  IF k # 0 THEN [df |-> d, ret |-> Raised(outs[k].exc)]
        ELSE LET d2 == setitem(d, column_name, [i \in DOMAIN outs |-> new(i)])
             IN  [df |-> d2, ret |-> Returned("df", d2)]

\* update_column: the whole column is computed by df.apply before anything is
\* assigned; [df |-> the caller's DataFrame afterwards, ret |-> returned or raised]
update_column(d, fn, column_name, args) ==
    LET outs == apply(d, fn, args)
        k    == FirstRaise(outs)
    IN  IF k # 0 THEN [df |-> d, ret |-> Raised(outs[k].exc)]
        ELSE LET d2 == setitem(d, column_name, [i \in DOMAIN outs |-> outs[i].value])
             IN  [df |-> d2, ret |-> Returned("df", d2)]

\* the elements of q whose mask entry is TRUE, in order
RECURSIVE BooleanIndex(_, _)
BooleanIndex(q, mask) ==
    IF q = <<>> THEN <<>>
    ELSE (IF Head(mask) THEN <<Head(q)>> ELSE <<>>) \o BooleanIndex(Tail(q), Tail(mask))

\* a condition_filter that keeps the rows the condition rejects
condition_filter_negated(d, mask) ==
    [columns |-> d.columns,
     index   |-> BooleanIndex(d.index, [i \in DOMAIN mask |-> ~mask[i]]),
     rows    |-> BooleanIndex(d.rows, [i \in DOMAIN mask |-> ~mask[i]])]

\* df.loc[condition], mask being condition(df): a new DataFrame
condition_filter(d, mask) ==
    [columns |-> d.columns,
     index   |-> BooleanIndex(d.index, mask),
     rows    |-> BooleanIndex(d.rows, mask)]

---------------------------------------------------------------------------
(* Inputs *)

\* the review values of the input DataFrames: a noisy str, a plain one, and NaN
\* (a record without a review)
Reviews == {StrV(<<"a", " ", " ", ".", ".">>), StrV(<<"a">>), NaN}

\* the rows of the input DataFrames
InputRows ==
    {[c \in {"review", "website"} |-> IF c = "review" THEN rv ELSE w] :
        rv \in Reviews, w \in Websites}

\* the DataFrames a caller passes in: 1..MaxRows rows labelled 0, 1, ...  (The
\* DataFrame with no row is left out: what df.apply gives for it, and whether the
\* assignment accepts it, is decided by pandas and not by this source.)
InputFrames ==
    {[columns |-> <<"review", "website">>, index |-> [i \in DOMAIN rs |-> i - 1], rows |-> rs] :
        rs \in UNION {[1..m -> InputRows] : m \in 1..MaxRows}}

\* the column names handed to update_column
ColumnNames == {"review", "website", "cleaned_review", "review_length"}

\* the record of an operation on df
Called(o, fn, column_name, mask, e) ==
    [op |-> o, fn |-> fn, column |-> column_name, mask |-> mask, exc |-> e]

NoCall == Called("none", "", "", <<>>, "")

---------------------------------------------------------------------------
(* The operations on a DataFrame *)

Init ==
    /\ df \in InputFrames
    /\ df0 = NoFrame
    /\ call = NoCall
    /\ prevcall = NoCall
    /\ ret = Raised("")
    /\ ncalls = 0
    /\ input = <<>> /\ text = <<>> /\ prev = <<>> /\ stage = <<>>
    /\ op = "none" /\ prevop = "none"
    /\ row = <<>> /\ result = NoResult

UpdateColumn ==
    /\ ncalls < MaxCalls
    /\ \E fn \in RowFunctions, column_name \in ColumnNames :
          LET r == update_column(df, fn, column_name, cn_websites)
          IN  /\ df' = r.df
              /\ ret' = r.ret
              /\ call' = Called("update_column", fn, column_name, <<>>, r.ret.exc)
    /\ df0' = df
    /\ prevcall' = call
    /\ ncalls' = ncalls + 1
    /\ UNCHANGED <<input, text, prev, stage, op, prevop, row, result>>

ConditionFilter ==
    /\ ncalls < MaxCalls
    /\ \E mask \in [DOMAIN df.rows -> BOOLEAN] :
          /\ ret' = Returned("new", condition_filter(df, mask))
          /\ call' = Called("condition_filter", "", "", mask, "")
    /\ df0' = df
    /\ prevcall' = call
    /\ ncalls' = ncalls + 1
    /\ UNCHANGED <<df, input, text, prev, stage, op, prevop, row, result>>

Next == UpdateColumn \/ ConditionFilter

Spec == Init /\ [][Next]_vars

---------------------------------------------------------------------------
(* The cleaners on one str *)

InitText ==
    /\ input \in Strings(MaxLen)
    /\ text = input
    /\ prev = <<>> /\ stage = <<>>
    /\ op = "none" /\ prevop = "none"
    /\ row = <<>> /\ result = NoResult
    /\ df = NoFrame /\ df0 = NoFrame
    /\ call = NoCall /\ prevcall = NoCall
    /\ ret = Raised("")
    /\ ncalls = 0

\* text = clean_cn_noise(text)
CleanCnNoise ==
    /\ text' = clean_cn_noise(text)
    /\ stage' = cn_spaces(text)
    /\ prev' = text
    /\ op' = "clean_cn_noise"
    /\ prevop' = op
    /\ UNCHANGED <<input, row, result, df, df0, call, prevcall, ret, ncalls>>

\* text = clean_en_noise(text)
CleanEnNoise ==
    /\ text' = clean_en_noise(text)
    /\ stage' = en_spaces(text)
    /\ prev' = text
    /\ op' = "clean_en_noise"
    /\ prevop' = op
    /\ UNCHANGED <<input, row, result, df, df0, call, prevcall, ret, ncalls>>

NextText == CleanCnNoise \/ CleanEnNoise

SpecText == InitText /\ [][NextText]_vars

---------------------------------------------------------------------------
(* The row-level functions on one row *)

\* what a ratio column can hold: a float of [0, 1] (in hundredths), NaN, None
Ratios == {FloatV(n) : n \in 0..100} \cup {NaN, None}

\* rows with the two ratios
LevelRows ==
    {[c \in {"rating_ratio", "like_ratio"} |-> IF c = "rating_ratio" THEN a ELSE b] :
        a \in Ratios, b \in Ratios}

\* rows with a review and its website
ReviewRows ==
    {[c \in {"review", "website"} |-> IF c = "review" THEN StrV(s) ELSE w] :
        s \in Strings(MaxLen), w \in Websites}

InitRow ==
    /\ row \in LevelRows \cup ReviewRows
    /\ result = NoResult
    /\ op = "none" /\ prevop = "none"
    /\ input = <<>> /\ text = <<>> /\ prev = <<>> /\ stage = <<>>
    /\ df = NoFrame /\ df0 = NoFrame
    /\ call = NoCall /\ prevcall = NoCall
    /\ ret = Raised("")
    /\ ncalls = 0

CleanTextBasic ==
    /\ result' = clean_text_basic(row, cn_websites)
    /\ op' = "clean_text_basic"
    /\ UNCHANGED <<input, text, prev, stage, prevop, row, df, df0, call, prevcall, ret, ncalls>>

CalculateReviewLength ==
    /\ result' = calculate_review_length(row, cn_websites)
    /\ op' = "calculate_review_length"
    /\ UNCHANGED <<input, text, prev, stage, prevop, row, df, df0, call, prevcall, ret, ncalls>>

CalculateRatingLevel ==
    /\ result' = calculate_rating_level(row)
    /\ op' = "calculate_rating_level"
    /\ UNCHANGED <<input, text, prev, stage, prevop, row, df, df0, call, prevcall, ret, ncalls>>

CalculateLikeLevel ==
    /\ result' = calculate_like_level(row)
    /\ op' = "calculate_like_level"
    /\ UNCHANGED <<input, text, prev, stage, prevop, row, df, df0, call, prevcall, ret, ncalls>>

NextRow ==
    CleanTextBasic \/ CalculateReviewLength \/ CalculateRatingLevel \/ CalculateLikeLevel

SpecRow == InitRow /\ [][NextRow]_vars

---------------------------------------------------------------------------
(* Properties of the level functions (under SpecRow) *)

\* the row holds a float of [0, 1] in column c
HasRatio(c) == c \in DOMAIN row /\ row[c].t = "float"

\* C1: for every numeric rating_ratio of [0, 1], calculate_rating_level returns
\* exactly one of the three labels: "Good (>=8/10)" iff ratio >= 0.8,
\* "Bad (<=4/10)" iff ratio <= 0.4, "Ok (4~8/10)" iff 0.4 < ratio < 0.8.
RatingLevelPartition ==
    (op = "calculate_rating_level" /\ HasRatio("rating_ratio")) =>
        LET x == row["rating_ratio"].n
        IN  /\ result.status = "ok"
            /\ result.value \in {Atom("Good (>=8/10)"), Atom("Bad (<=4/10)"), Atom("Ok (4~8/10)")}
            /\ (result.value = Atom("Good (>=8/10)")) <=> (x >= 80)
            /\ (result.value = Atom("Bad (<=4/10)")) <=> (x <= 40)
            /\ (result.value = Atom("Ok (4~8/10)")) <=> (40 < x /\ x < 80)

\* a rating_ratio of exactly 0.8 has been rated "Good (>=8/10)"
RatingLevelAtThreshold ==
    /\ op = "calculate_rating_level"
    /\ HasRatio("rating_ratio")
    /\ row["rating_ratio"] = FloatV(80)
    /\ result = Ok(Atom("Good (>=8/10)"))

\* C2: for every numeric like_ratio of [0, 1], calculate_like_level returns
\* "Mostly Agree (>80%)" iff ratio >= 0.8, "Somewhat Agree (50%~80%)" iff
\* 0.5 < ratio < 0.8, "Somewhat Disagree (20%~50%)" iff 0.2 < ratio <= 0.5 and
\* "Mostly Disagree (<20%)" iff ratio <= 0.2.
LikeLevelPartition ==
    (op = "calculate_like_level" /\ HasRatio("like_ratio")) =>
        LET x == row["like_ratio"].n
        IN  /\ result.status = "ok"
            /\ (result.value = Atom("Mostly Agree (>80%)")) <=> (x >= 80)
            /\ (result.value = Atom("Somewhat Agree (50%~80%)")) <=> (50 < x /\ x < 80)
            /\ (result.value = Atom("Somewhat Disagree (20%~50%)")) <=> (20 < x /\ x <= 50)
            /\ (result.value = Atom("Mostly Disagree (<20%)")) <=> (x <= 20)

\* the row holds None or NaN in column c
HasNoRatio(c) == c \in DOMAIN row /\ row[c].t \in {"none", "nan"}

\* C3: when the ratio a level function reads is None or NaN, the function
\* returns None ("no level") and does not fail.
MissingRatioIsNoLevel ==
    /\ (op = "calculate_rating_level" /\ HasNoRatio("rating_ratio")) => result = Ok(None)
    /\ (op = "calculate_like_level" /\ HasNoRatio("like_ratio")) => result = Ok(None)

---------------------------------------------------------------------------
(* Properties of calculate_review_length (under SpecRow) *)

\* the positions of s where a maximal run of \w characters starts
TokenStarts(s) == {i \in DOMAIN s : IsWord(s[i]) /\ (i = 1 \/ ~IsWord(s[i - 1]))}

\* C10: calculate_review_length returns the number of characters of the raw
\* review when the row's website is a CN site, and otherwise the number of
\* maximal runs of word characters in the raw review; the row is not modified.
ReviewLengthCounts ==
    [][(op' = "calculate_review_length" /\ row \in ReviewRows) =>
          /\ row' = row
          /\ result' = Ok(IntV(IF row["website"] \in cn_websites
                               THEN Len(row["review"].s)
                               ELSE Cardinality(TokenStarts(row["review"].s))))]_vars

\* a review of two tokens on a site that is not a CN site has been given length 2,
\* where its character count is 4
ReviewLengthOfTwoTokens ==
    /\ op = "calculate_review_length"
    /\ row \in ReviewRows
    /\ row["website"] = Atom("imdb")
    /\ row["review"] = StrV(<<"a", ".", " ", "a">>)
    /\ result = Ok(IntV(2))

---------------------------------------------------------------------------
(* Properties of the cleaners (under SpecText) *)

Cleaners == {"clean_cn_noise", "clean_en_noise"}

\* C8: both cleaners are idempotent: a cleaner applied to its own output returns
\* it unchanged.
CleanersIdempotent ==
    (op \in Cleaners /\ prevop = op) => text = prev

\* clean_cn_noise has been applied twice to a str whose repeated punctuation was
\* separated by whitespace
CleanedTwiceAcrossWhitespace ==
    /\ input = <<"u3002", " ", "u3002">>
    /\ op = "clean_cn_noise" /\ prevop = "clean_cn_noise"
    /\ prev = <<"u3002">>
    /\ text = <<"u3002">>

\* the character class of the cleaner called last
PunctOf(f) == IF f = "clean_cn_noise" THEN CnPunct ELSE EnPunct

\* the characters of s at the positions of K, in order
RECURSIVE Keep(_, _, _)
Keep(s, K, n) ==
    IF n = 0 THEN <<>> ELSE Keep(s, K, n - 1) \o (IF n \in K THEN <<s[n]>> ELSE <<>>)

\* the positions of s that do not repeat, as a character of P, the character before
NotRepeating(s, P) == {i \in DOMAIN s : i = 1 \/ s[i] # s[i - 1] \/ s[i] \notin P}

\* C9: the punctuation step of a cleaner replaces each maximal run of one
\* character of the cleaner's class by one occurrence and changes nothing else:
\* its output has no two adjacent identical class characters, and every other
\* character (alternating punctuation, repeated characters outside the class)
\* is kept.
PunctuationCollapse ==
    op \in Cleaners =>
        /\ text = Keep(stage, NotRepeating(stage, PunctOf(op)), Len(stage))
        /\ \A i \in 1..(Len(text) - 1) : text[i] = text[i + 1] => text[i] \notin PunctOf(op)

\* clean_en_noise has collapsed "!!.." to "!.", two runs of different characters
PunctuationRunsCollapsed ==
    /\ op = "clean_en_noise"
    /\ stage = <<"!", "!", ".", ".">>
    /\ text = <<"!", ".">>

---------------------------------------------------------------------------
(* Properties of update_column and condition_filter (under Spec) *)

\* the last operation was update_column, and it returned
Updated == call.op = "update_column" /\ call.exc = ""

\* the last operation was update_column, and it raised
UpdateFailed == call.op = "update_column" /\ call.exc # ""

\* what the row function of the last call gives on row i of the DataFrame as it
\* was before the call
Before(i) == apply_function(call.fn, df0.rows[i], cn_websites)

\* q without x
Without(q, x) == SelectSeq(q, LAMBDA c : c # x)

\* C4: after a successful update_column, every row's value in column_name is fn
\* of the row as it was before the call, every other column, the number of rows
\* and their order are unchanged, and the DataFrame returned is the one passed in.
UpdateColumnAssigns ==
    Updated =>
        /\ ret.obj = "df" /\ ret.value = df
        /\ df.index = df0.index
        /\ DOMAIN df.rows = DOMAIN df0.rows
        /\ Range(df.columns) = Range(df0.columns) \cup {call.column}
        /\ Without(df.columns, call.column) = Without(df0.columns, call.column)
        /\ \A i \in DOMAIN df0.rows :
              /\ DOMAIN df.rows[i] = DOMAIN df0.rows[i] \cup {call.column}
              /\ Before(i).status = "ok"
              /\ df.rows[i][call.column] = Before(i).value
              /\ \A c \in DOMAIN df0.rows[i] \ {call.column} : df.rows[i][c] = df0.rows[i][c]

\* update_column has overwritten a column its row function reads
UpdatedColumnItReads ==
    /\ Updated
    /\ call.fn = "clean_text_basic" /\ call.column = "review"
    /\ df # df0

\* the first row of the DataFrame before the call on which the row function fails
FailingRow == FirstRaise([i \in DOMAIN df0.rows |-> Before(i)])

\* C5 as stated: when fn fails partway through update_column, the rows before the
\* failing row are left updated in column_name.
FailureLeavesEarlierRowsUpdated ==
    UpdateFailed =>
        \A i \in 1..(FailingRow - 1) :
            /\ call.column \in DOMAIN df.rows[i]
            /\ df.rows[i][call.column] = Before(i).value

\* C5, amended: when fn fails on some row, update_column raises what that row
\* raised and the DataFrame is left as it was before the call: no row is updated.
FailureLeavesFrameUnchanged ==
    UpdateFailed =>
        /\ df = df0
        /\ ret.obj = "none"
        /\ FailingRow # 0
        /\ ret.exc = Before(FailingRow).exc

\* update_column has failed on the second row, after a first row that computed
FailedPartway ==
    /\ UpdateFailed
    /\ FailingRow = 2
    /\ call.column = "cleaned_review"

\* the last two operations were the same successful update_column
UpdatedTwice ==
    /\ Updated
    /\ prevcall.op = "update_column" /\ prevcall.exc = ""
    /\ prevcall.fn = call.fn /\ prevcall.column = call.column

\* C6 as stated: update_column applied twice with the same function and column
\* leaves the DataFrame as the first application left it.
RepeatedUpdateSameFrame ==
    UpdatedTwice => df = df0

\* C6, amended: update_column applied twice with the same function and a column
\* the function does not read leaves the DataFrame as the first application left it.
RepeatedUpdateOverwrites ==
    (UpdatedTwice /\ call.column \notin Reads(call.fn)) => df = df0

\* clean_text_basic has been written twice to cleaned_review
UpdatedDerivedColumnTwice ==
    /\ UpdatedTwice
    /\ call.fn = "clean_text_basic" /\ call.column = "cleaned_review"
    /\ "cleaned_review" \in Range(df.columns)

\* the positions of the DataFrame before the call whose mask entry is TRUE
Selected == {i \in DOMAIN call.mask : call.mask[i]}

\* the position in the DataFrame before the call of the row labelled l
PositionOf(l) == CHOOSE i \in DOMAIN df0.index : df0.index[i] = l

\* C7: condition_filter returns exactly the rows whose mask entry is true, in
\* their original order and with all columns, and leaves its input unchanged; an
\* always-false mask gives no row and an always-true mask gives every row.
FilterSelectsMaskedRows ==
    call.op = "condition_filter" =>
        LET out == ret.value
        IN  /\ ret.obj = "new"
            /\ df = df0
            /\ out.columns = df0.columns
            /\ Len(out.index) = Cardinality(Selected)
            /\ Len(out.rows) = Cardinality(Selected)
            /\ {out.index[j] : j \in DOMAIN out.index} = {df0.index[i] : i \in Selected}
            /\ \A j, k \in DOMAIN out.index :
                  j < k => PositionOf(out.index[j]) < PositionOf(out.index[k])
            /\ \A j \in DOMAIN out.rows : out.rows[j] = df0.rows[PositionOf(out.index[j])]
            /\ (Selected = {}) => out.rows = <<>>
            /\ (Selected = DOMAIN df0.rows) => out = df0

\* condition_filter has kept the second of two rows
FilteredOneOfTwo ==
    /\ call.op = "condition_filter"
    /\ call.mask = <<FALSE, TRUE>>
    /\ ret.value.index = <<1>>

===========================================================================
